---- MODULE Spec2Model ----
(***************************************************************************)
(* The NetworkVisualization React component (three.js scene engine) of     *)
(* Aegis-of-Alderaan, as a state machine.                                  *)
(*                                                                         *)
(* The component has four effects.  The init effect is a layout effect     *)
(* with dependency list [isInitialized]; the sync effect, the highlight    *)
(* effect and the workload effect are passive effects.  React runs the     *)
(* cleanup of an effect before it re-runs the effect on a dependency       *)
(* change, and at unmount it runs the cleanup returned by the LAST run of  *)
(* each effect.  A state update made inside a layout effect is rendered    *)
(* and committed synchronously, before the browser delivers any event or   *)
(* animation frame.                                                        *)
(*                                                                         *)
(* Lengths are in thousandths of a scene unit, strengths, scales,          *)
(* opacities and colour components in thousandths, angles in               *)
(* microradians.  An input event or animation frame runs its handler only  *)
(* while the listener or the animation loop is attached.  The tweens of    *)
(* the highlight effect run on gsap's own ticker.                          *)
(*                                                                         *)
(* The useNetworkData hook, which polls the status endpoint and holds the  *)
(* topology and the selection, is modelled next to the component; a        *)
(* device record without the field position or workload is a device whose  *)
(* position or metrics are missing.                                        *)
(***************************************************************************)
EXTENDS Integers, Sequences, FiniteSets, TLC

\* ------------------------------------------------------------------ bounds
MaxDevices == 2
MaxConnections == 1
MaxSnapshots == 1
MaxDragDistance == 100
MaxSelections == 2
MaxFetches == 5
MaxTopologies == 3

\* ------------------------------------------------------- program constants
MIN_DISTANCE == 5000
MAX_DISTANCE == 120000
DRAG_THRESHOLD == 5
INITIAL_CAMERA_DISTANCE == 51961
HALF_PI == 1570796
IDLE_STEP == 44
CONTAINER_WIDTH == 800
CONTAINER_HEIGHT == 600
POOL_OPACITY == 800
SELECTED_SCALE == 1500
SELECTED_OPACITY == 1000
UNSELECTED_SCALE == 1000
UNSELECTED_OPACITY == 600

\* --------------------------------------------------------------- the inputs
Origin == <<0, 0, 0>>
East == <<5000, 0, 0>>

Dev(id, status, position, workload) ==
    [id |-> id, status |-> status, position |-> position, workload |-> workload]

Devices ==
    { Dev("d1", "healthy", Origin, 0),
      Dev("d2", "critical", East, 50) }

Conn(from, to, strength) == [from |-> from, to |-> to, strength |-> strength]

Connections == { Conn("d1", "d2", 500), Conn("d2", "d3", 1500) }

Ids(devs) == { devs[i].id : i \in 1..Len(devs) }

SeqsUpTo(S, n) == UNION { [1..k -> S] : k \in 0..n }

DeviceLists == SeqsUpTo(Devices, MaxDevices)
ConnectionLists == SeqsUpTo(Connections, MaxConnections)

PointerPositions == { <<0, 0>>, <<3, 4>>, <<0, 100>> }
WheelSigns == {-1, 0, 1}

\* ------------------------------------------------------------------ state
VARIABLES
    pc,                 \* where the component is in its life cycle
    isInitialized,      \* the React state
    devices,            \* props.devices
    connections,        \* props.connections
    res,                \* every geometry/material/texture created, by id
    objs,               \* the Object3D heap, by object id
    nextOid,            \* the next fresh object id
    world,              \* the children of the world group, in order
    worldInScene,       \* world is a child of scene
    deviceObjectsRef,   \* Map id -> bundle
    materialsRef,       \* Record status -> material
    sphereGeoRef,
    connectionGeomRef,
    connectionMatRef,
    connectionLinesRef,
    listeners,          \* event listeners attached to the canvas and window
    loopScheduled,      \* renderer.setAnimationLoop(animate) is in force
    rendererDisposed,   \* number of renderer.dispose() calls
    canvasInContainer,  \* renderer.domElement is a child of the mount div
    dragState,
    cameraDistance,     \* camera.position.length()
    cameraAspect,       \* camera.aspect
    rotation,           \* world.rotation, in microradians
    snapshots,          \* number of prop changes so far
    removed,            \* the ids whose bundle the last sync found absent
    pointer,            \* the pointer as the browser sees it
    lastEvent,          \* the last input event and what its handler did
    selectedDevice,     \* props.selectedDevice: a device id or Null
    opacity,            \* material id -> opacity, where a tween has set it
    tweens,             \* the gsap tweens in progress, oldest first
    selections,         \* number of selection changes so far
    highlighted,        \* the selected id whose highlight tween has completed
    hookMounted,        \* useNetworkData: the component using it is mounted
    topology,           \* useNetworkData: the device ids of the topology
    topologyVersion,    \* number of topologies set so far; 0: topology null
    topologyFetch,      \* the fetchData call whose response topology holds
    selectedDeviceState, \* useNetworkData: the selectedDevice state
    isLoading,          \* useNetworkData: the isLoading state
    inflight,           \* the fetchData calls awaiting their response
    fetchesStarted,     \* number of fetchData calls so far
    fetchesCompleted,   \* number of fetchData calls that have returned
    dashboardMounted,   \* GuardianDashboard is mounted
    dashboardTopology,  \* GuardianDashboard: the devices of props.topology
    topologiesRendered, \* number of topology props rendered so far
    aiLoading,          \* GuardianDashboard: the aiLoading state
    aiAnalyses,         \* GuardianDashboard: the ids with an analysis
    lastScanAt,         \* number of setLastScanAt calls so far
    aiRuns              \* the fetchAllAIAnalyses calls awaiting allSettled

vars == << pc, isInitialized, devices, connections, res, objs, nextOid, world,
           worldInScene, deviceObjectsRef, materialsRef, sphereGeoRef,
           connectionGeomRef, connectionMatRef, connectionLinesRef, listeners,
           loopScheduled, rendererDisposed, canvasInContainer, dragState,
           cameraDistance, cameraAspect, rotation, snapshots, removed, pointer,
           lastEvent, selectedDevice, opacity, tweens, selections,
           highlighted, hookMounted, topology, topologyVersion, topologyFetch,
           selectedDeviceState,
           isLoading, inflight, fetchesStarted, fetchesCompleted,
           dashboardMounted, dashboardTopology, topologiesRendered, aiLoading,
           aiAnalyses, lastScanAt, aiRuns >>

dashboardVars ==
    << dashboardMounted, dashboardTopology, topologiesRendered, aiLoading,
       aiAnalyses, lastScanAt, aiRuns >>

highlightVars == << selectedDevice, opacity, tweens, selections,
                    highlighted >>

hookVars == << hookMounted, topology, topologyVersion, topologyFetch,
               selectedDeviceState,
               isLoading, inflight, fetchesStarted, fetchesCompleted >>

componentVars ==
    << pc, isInitialized, devices, connections, res, objs, nextOid, world,
       worldInScene, deviceObjectsRef, materialsRef, sphereGeoRef,
       connectionGeomRef, connectionMatRef, connectionLinesRef, listeners,
       loopScheduled, rendererDisposed, canvasInContainer, dragState,
       cameraDistance, cameraAspect, rotation, snapshots, removed, pointer,
       lastEvent, selectedDevice, opacity, tweens, selections,
       highlighted >>

MaterialKeys == {"healthy", "warning", "critical", "default"}

EngineListeners == {"resize", "mousedown", "mousemove", "mouseup", "wheel"}

NoEvent == [type |-> "none"]

\* selectedDevice = null.
Null == "null"

\* The selectedDevice state of useNetworkData when it is null; a selected
\* device is the object of a device id in one version of the topology.
NoDevice == [id |-> Null, version |-> 0]

\* width / height as JavaScript computes it: a ratio, Infinity or NaN.
Aspect(w, h) ==
    IF h # 0 THEN [kind |-> "ratio", num |-> w, den |-> h]
    ELSE IF w # 0 THEN [kind |-> "Infinity"] ELSE [kind |-> "NaN"]

\* ----------------------------------------------------------- the resources
NewRes(kind) == [kind |-> kind, disposed |-> 0]

Dispose(r, rid) == [r EXCEPT ![rid].disposed = @ + 1]

DisposeIfSet(r, rid) == IF rid = 0 THEN r ELSE Dispose(r, rid)

\* The heap the effects work on, as one value.
Heap ==
    [ res |-> res, objs |-> objs, nextOid |-> nextOid, world |-> world,
      deviceObjectsRef |-> deviceObjectsRef, materialsRef |-> materialsRef,
      connectionGeomRef |-> connectionGeomRef,
      connectionMatRef |-> connectionMatRef,
      connectionLinesRef |-> connectionLinesRef ]

SetHeap(h) ==
    /\ res' = h.res
    /\ objs' = h.objs
    /\ nextOid' = h.nextOid
    /\ world' = h.world
    /\ deviceObjectsRef' = h.deviceObjectsRef
    /\ materialsRef' = h.materialsRef
    /\ connectionGeomRef' = h.connectionGeomRef
    /\ connectionMatRef' = h.connectionMatRef
    /\ connectionLinesRef' = h.connectionLinesRef

WorldRemove(w, oid) == SelectSeq(w, LAMBDA o : o # oid)

Drop(f, ks) == [k \in (DOMAIN f) \ ks |-> f[k]]

\* new THREE.MeshPhongMaterial: colour and emissive follow the status.
NewMaterial(status) ==
    [kind |-> "material", disposed |-> 0, status |-> status]

\* A pool that makes a new material on every call.
getMaterialForStatusFresh(h, status) ==
    [h EXCEPT !.res = Append(@, NewMaterial(status)),
              !.materialsRef[status] = Len(h.res) + 1]

\* getMaterialForStatus: the heap after the call; the material it returns
\* is materialsRef[status] of that heap.
getMaterialForStatus(h, status) ==
    IF h.materialsRef[status] # 0
    THEN h
    ELSE [h EXCEPT !.res = Append(@, NewMaterial(status)),
                   !.materialsRef[status] = Len(h.res) + 1]

\* ------------------------------------------------------- the sync effect
\* A removal loop that also disposes the body's material.
RECURSIVE RemoveBundlesWithBodyMaterial(_, _)
RemoveBundlesWithBodyMaterial(h, ids) ==
    IF ids = {} THEN h
    ELSE LET id == CHOOSE x \in ids : TRUE
             b == h.deviceObjectsRef[id]
             label == h.objs[b.label]
             h1 == [h EXCEPT
                      !.world = WorldRemove(WorldRemove(@, b.mesh), b.label),
                      !.res = Dispose(Dispose(Dispose(@, label.map),
                                              label.material),
                                      h.objs[b.mesh].material),
                      !.objs = Drop(@, {b.mesh, b.label})]
         IN RemoveBundlesWithBodyMaterial(h1, ids \ {id})

\* deviceObjectsRef.current.forEach: remove body and label of every bundle
\* from world and dispose the label's texture and material.
RECURSIVE RemoveBundles(_, _)
RemoveBundles(h, ids) ==
    IF ids = {} THEN h
    ELSE LET id == CHOOSE x \in ids : TRUE
             b == h.deviceObjectsRef[id]
             label == h.objs[b.label]
             h1 == [h EXCEPT
                      !.world = WorldRemove(WorldRemove(@, b.mesh), b.label),
                      !.res = Dispose(Dispose(@, label.map), label.material),
                      !.objs = Drop(@, {b.mesh, b.label})]
         IN RemoveBundles(h1, ids \ {id})

ClearRegistry(m) == << >>

\* The removal loop and clear() left out.
RemoveOldBundlesForgotten(h) == h

RemoveOldBundles(h) ==
    LET h1 == RemoveBundles(h, DOMAIN h.deviceObjectsRef)
    IN [h1 EXCEPT !.deviceObjectsRef = ClearRegistry(@)]

\* A cache that never reads the device's metrics.
WorkloadZero(device) == 0

\* device.metrics?.workload ?? 0: a device record without the field
\* workload is a device without metrics.
Workload(device) ==
    IF "workload" \in DOMAIN device THEN device.workload ELSE 0

\* A forEach body that keeps the bundle an id already has in the Map.
CreateBundleKeepFirst(h, device) ==
    LET h1 == getMaterialForStatus(h, device.status)
        material == h1.materialsRef[device.status]
        meshId == h1.nextOid
        spriteId == h1.nextOid + 1
        texture == Len(h1.res) + 1
        spriteMaterial == Len(h1.res) + 2
        mesh == [type |-> "Mesh", geometry |-> sphereGeoRef,
                 material |-> material, position |-> device.position,
                 deviceId |-> device.id, workload |-> Workload(device),
                 scale |-> 1000]
        sprite == [type |-> "Sprite", map |-> texture,
                   material |-> spriteMaterial,
                   position |-> << device.position[1],
                                   device.position[2] + 2000,
                                   device.position[3] >>]
    IN [h1 EXCEPT
          !.res = @ \o << NewRes("labelTexture"),
                          NewRes("labelMaterial") >>,
          !.objs = @ @@ (meshId :> mesh) @@ (spriteId :> sprite),
          !.nextOid = @ + 2,
          !.world = @ \o << meshId, spriteId >>,
          !.deviceObjectsRef =
              [id \in (DOMAIN @) \cup {device.id} |->
                  IF id = device.id /\ id \notin DOMAIN @
                  THEN [mesh |-> meshId, label |-> spriteId]
                  ELSE @[id]]]

\* The body of devices.forEach for one device.
CreateBundle(h, device) ==
    LET h1 == getMaterialForStatus(h, device.status)
        material == h1.materialsRef[device.status]
        meshId == h1.nextOid
        spriteId == h1.nextOid + 1
        texture == Len(h1.res) + 1
        spriteMaterial == Len(h1.res) + 2
        mesh == [type |-> "Mesh", geometry |-> sphereGeoRef,
                 material |-> material, position |-> device.position,
                 deviceId |-> device.id, workload |-> Workload(device),
                 scale |-> 1000]
        sprite == [type |-> "Sprite", map |-> texture,
                   material |-> spriteMaterial,
                   position |-> << device.position[1],
                                   device.position[2] + 2000,
                                   device.position[3] >>]
    IN [h1 EXCEPT
          !.res = @ \o << NewRes("labelTexture"),
                          NewRes("labelMaterial") >>,
          !.objs = @ @@ (meshId :> mesh) @@ (spriteId :> sprite),
          !.nextOid = @ + 2,
          !.world = @ \o << meshId, spriteId >>,
          !.deviceObjectsRef =
              [id \in (DOMAIN @) \cup {device.id} |->
                  IF id = device.id
                  THEN [mesh |-> meshId, label |-> spriteId]
                  ELSE @[id]]]

RECURSIVE CreateBundles(_, _, _)
CreateBundles(h, devs, i) ==
    IF i > Len(devs) THEN h
    ELSE CreateBundles(CreateBundle(h, devs[i]), devs, i + 1)

\* A lookup that falls back to the first device for an unknown id.
FindDeviceOrFirst(devs, id, i) ==
    IF \E k \in i..Len(devs) : devs[k].id = id
    THEN CHOOSE k \in i..Len(devs) :
            devs[k].id = id /\ \A j \in i..(k - 1) : devs[j].id # id
    ELSE IF Len(devs) > 0 THEN 1 ELSE 0

\* Array.prototype.find: the first device with the id, or 0.
RECURSIVE FindDevice(_, _, _)
FindDevice(devs, id, i) ==
    IF i > Len(devs) THEN 0
    ELSE IF devs[i].id = id THEN i
    ELSE FindDevice(devs, id, i + 1)

IsValidConnection(devs, c) ==
    FindDevice(devs, c.from, 1) # 0 /\ FindDevice(devs, c.to, 1) # 0

RECURSIVE ValidConnections(_, _, _)
ValidConnections(conns, devs, i) ==
    IF i > Len(conns) THEN << >>
    ELSE LET c == conns[i]
             rest == ValidConnections(conns, devs, i + 1)
         IN IF IsValidConnection(devs, c)
            THEN << [c |-> c,
                     from |-> devs[FindDevice(devs, c.from, 1)],
                     to |-> devs[FindDevice(devs, c.to, 1)]] >> \o rest
            ELSE rest

Clamp(x, lo, hi) == IF x < lo THEN lo ELSE IF x > hi THEN hi ELSE x

\* Color.setHSL(0.5, 1, lerp(0.3, 0.7, strength)) as << r, g, b >>.
EdgeColor(strength) ==
    LET s == Clamp(strength, 0, 1000)
        l == 300 + (400 * s) \div 1000
    IN IF l <= 500 THEN << 0, 2 * l, 2 * l >>
       ELSE << 2 * l - 1000, 1000, 1000 >>

RECURSIVE EdgePositions(_, _)
EdgePositions(valid, i) ==
    IF i > Len(valid) THEN << >>
    ELSE valid[i].from.position \o valid[i].to.position
            \o EdgePositions(valid, i + 1)

RECURSIVE EdgeColors(_, _)
EdgeColors(valid, i) ==
    IF i > Len(valid) THEN << >>
    ELSE LET col == EdgeColor(valid[i].c.strength)
         IN col \o col \o EdgeColors(valid, i + 1)

\* A rebuild that disposes the previous batch but leaves it in world.
DisposePreviousBatchAttached(h) ==
    IF h.connectionLinesRef # 0
    THEN [h EXCEPT
            !.res = DisposeIfSet(DisposeIfSet(@, h.connectionGeomRef),
                                 h.connectionMatRef),
            !.connectionLinesRef = 0]
    ELSE h

DisposePreviousBatch(h) ==
    IF h.connectionLinesRef # 0
    THEN [h EXCEPT
            !.world = WorldRemove(@, h.connectionLinesRef),
            !.objs = Drop(@, {h.connectionLinesRef}),
            !.res = DisposeIfSet(DisposeIfSet(@, h.connectionGeomRef),
                                 h.connectionMatRef),
            !.connectionLinesRef = 0]
    ELSE h

BuildBatch(h, conns, devs) ==
    LET valid == ValidConnections(conns, devs, 1)
        geom == Len(h.res) + 1
        mat == Len(h.res) + 2
        lines == [type |-> "LineSegments", geometry |-> geom,
                  material |-> mat,
                  positions |-> EdgePositions(valid, 1),
                  colors |-> EdgeColors(valid, 1)]
    IN IF Len(valid) > 0
       THEN [h EXCEPT
               !.res = @ \o << NewRes("connGeom"),
                               NewRes("connMat") >>,
               !.objs = @ @@ (h.nextOid :> lines),
               !.nextOid = @ + 1,
               !.world = Append(@, h.nextOid),
               !.connectionGeomRef = geom,
               !.connectionMatRef = mat,
               !.connectionLinesRef = h.nextOid]
       ELSE h

\* The body of the sync effect, after its guard.
SyncEffect(h, devs, conns) ==
    BuildBatch(DisposePreviousBatch(
                  CreateBundles(RemoveOldBundles(h), devs, 1)), conns, devs)

\* A device record without the field position is a device whose position
\* is undefined: reading device.position.x throws a TypeError.
HasPosition(device) == "position" \in DOMAIN device

\* The index of the first device at which devices.forEach throws, or 0.
RECURSIVE ThrowIndex(_, _)
ThrowIndex(devs, i) ==
    IF i > Len(devs) THEN 0
    ELSE IF ~HasPosition(devs[i]) THEN i
    ELSE ThrowIndex(devs, i + 1)

SyncThrows(devs) == ThrowIndex(devs, 1) # 0

\* The sync effect up to the TypeError: the old bundles are removed, the
\* devices before the throwing one have bundles, and the pool material of
\* the throwing one exists; its Mesh is referenced by nothing.
SyncEffectThrown(h, devs) ==
    LET k == ThrowIndex(devs, 1)
    IN getMaterialForStatus(
          CreateBundles(RemoveOldBundles(h), SubSeq(devs, 1, k - 1), 1),
          devs[k].status)

\* The workload effect: for every device with a bundle, refresh the cached
\* workload and the status material.
RECURSIVE WorkloadEffect(_, _, _)
WorkloadEffect(h, devs, i) ==
    IF i > Len(devs) THEN h
    ELSE LET d == devs[i]
         IN IF d.id \in DOMAIN h.deviceObjectsRef
            THEN LET m == h.deviceObjectsRef[d.id].mesh
                     h1 == getMaterialForStatus(h, d.status)
                     h2 == [h1 EXCEPT
                              !.objs[m].workload = Workload(d),
                              !.objs[m].material = h1.materialsRef[d.status]]
                 IN WorkloadEffect(h2, devs, i + 1)
            ELSE WorkloadEffect(h, devs, i + 1)

\* --------------------------------------------------- the highlight effect
\* The keys of deviceObjectsRef in Map iteration order: the order in which
\* the sync effect first set them.
RECURSIVE RegistryOrder(_, _, _)
RegistryOrder(devs, reg, i) ==
    IF i > Len(devs) THEN << >>
    ELSE IF /\ devs[i].id \in DOMAIN reg
            /\ \A j \in 1..(i - 1) : devs[j].id # devs[i].id
         THEN << devs[i].id >> \o RegistryOrder(devs, reg, i + 1)
         ELSE RegistryOrder(devs, reg, i + 1)

\* The two gsap.to calls for one body: on mesh.scale and on mesh.material.
HighlightTweens(os, mesh, sel) ==
    LET isSelected == sel # Null /\ os[mesh].deviceId = sel
    IN << [kind |-> "scale", target |-> mesh,
           to |-> IF isSelected THEN SELECTED_SCALE ELSE UNSELECTED_SCALE],
          [kind |-> "opacity", target |-> os[mesh].material,
           to |-> IF isSelected THEN SELECTED_OPACITY
                  ELSE UNSELECTED_OPACITY] >>

\* deviceObjectsRef.current.forEach of the highlight effect: the tweens it
\* starts, in order.
RECURSIVE HighlightEffect(_, _, _, _, _)
HighlightEffect(os, reg, order, sel, i) ==
    IF i > Len(order) THEN << >>
    ELSE HighlightTweens(os, reg[order[i]].mesh, sel)
            \o HighlightEffect(os, reg, order, sel, i + 1)

\* material.opacity: the value the pool material was created with until a
\* tween has written it.
Opacity(op, rid) == IF rid \in DOMAIN op THEN op[rid] ELSE POOL_OPACITY

\* gsap renders the tweens of a tick in the order they were created, each
\* writing its property; at completion a tween writes its end value.  A
\* tween on a body no longer referenced writes to a detached object.
RECURSIVE CompleteScales(_, _, _)
CompleteScales(os, tws, i) ==
    IF i > Len(tws) THEN os
    ELSE LET tw == tws[i]
             os1 == IF tw.kind = "scale" /\ tw.target \in DOMAIN os
                    THEN [os EXCEPT ![tw.target].scale = tw.to]
                    ELSE os
         IN CompleteScales(os1, tws, i + 1)

RECURSIVE CompleteOpacities(_, _, _)
CompleteOpacities(op, tws, i) ==
    IF i > Len(tws) THEN op
    ELSE LET tw == tws[i]
             op1 == IF tw.kind = "opacity"
                    THEN [r \in (DOMAIN op) \cup {tw.target} |->
                             IF r = tw.target THEN tw.to ELSE op[r]]
                    ELSE op
         IN CompleteOpacities(op1, tws, i + 1)

\* ------------------------------------------------- the init effect cleanup
\* A cleanup that leaves the wheel listener attached.
DetachAllButWheel(ls) == ls \ (EngineListeners \ {"wheel"})

\* A cleanup that leaves the resize listener attached.
DetachAllButResize(ls) == ls \ (EngineListeners \ {"resize"})

DetachEngineListeners(ls) == ls \ EngineListeners

\* world.traverse: dispose geometry and material of every Mesh, texture
\* and material of every Sprite.
RECURSIVE TraverseDispose(_, _, _, _)
TraverseDispose(r, os, w, i) ==
    IF i > Len(w) THEN r
    ELSE LET obj == os[w[i]]
             r1 == IF obj.type = "Mesh"
                   THEN Dispose(Dispose(r, obj.geometry), obj.material)
                   ELSE IF obj.type = "Sprite"
                   THEN Dispose(Dispose(r, obj.map), obj.material)
                   ELSE r
         IN TraverseDispose(r1, os, w, i + 1)

RECURSIVE DisposeAll(_, _)
DisposeAll(r, rids) ==
    IF rids = {} THEN r
    ELSE LET rid == CHOOSE x \in rids : TRUE
         IN DisposeAll(Dispose(r, rid), rids \ {rid})

\* connectionGeomRef, connectionMatRef, sphereGeoRef and every pool material.
DisposePools(r) ==
    LET r1 == DisposeIfSet(DisposeIfSet(DisposeIfSet(r, connectionGeomRef),
                                        connectionMatRef), sphereGeoRef)
    IN DisposeAll(r1, { materialsRef[k] : k \in MaterialKeys } \ {0})

\* sceneRef and worldRef are set by the init effect and never cleared.
worldInit == pc # "new"

\* ------------------------------------------------------------- life cycle
Init ==
    /\ pc = "new"
    /\ isInitialized = FALSE
    /\ devices = << >>
    /\ connections = << >>
    /\ res = << >>
    /\ objs = << >>
    /\ nextOid = 1
    /\ world = << >>
    /\ worldInScene = FALSE
    /\ deviceObjectsRef = << >>
    /\ materialsRef = [k \in MaterialKeys |-> 0]
    /\ sphereGeoRef = 0
    /\ connectionGeomRef = 0
    /\ connectionMatRef = 0
    /\ connectionLinesRef = 0
    /\ listeners = {}
    /\ loopScheduled = FALSE
    /\ rendererDisposed = 0
    /\ canvasInContainer = FALSE
    /\ dragState = [isMouseDown |-> FALSE, lastX |-> 0, lastY |-> 0,
                    velocityX |-> 0, velocityY |-> 0, dragDistance |-> 0]
    /\ cameraDistance = 0
    /\ cameraAspect = [kind |-> "none"]
    /\ rotation = [x |-> 0, y |-> 0]
    /\ snapshots = 0
    /\ removed = {}
    /\ pointer = [down |-> FALSE, position |-> <<0, 0>>, distance |-> 0]
    /\ lastEvent = NoEvent
    /\ selectedDevice = Null
    /\ opacity = << >>
    /\ tweens = << >>
    /\ selections = 0
    /\ highlighted = Null
    /\ hookMounted = FALSE
    /\ topology = {}
    /\ topologyVersion = 0
    /\ topologyFetch = 0
    /\ selectedDeviceState = NoDevice
    /\ isLoading = TRUE
    /\ inflight = {}
    /\ fetchesStarted = 0
    /\ fetchesCompleted = 0
    /\ dashboardMounted = FALSE
    /\ dashboardTopology = << >>
    /\ topologiesRendered = 0
    /\ aiLoading = FALSE
    /\ aiAnalyses = {}
    /\ lastScanAt = 0
    /\ aiRuns = {}

\* An init effect whose cleanup does not run in the commit that follows
\* setIsInitialized(true).
MountWithoutRerun(devs, conns) ==
    /\ pc = "new"
    /\ devices' = devs
    /\ connections' = conns
    /\ res' = << NewRes("sphereGeo") >>
    /\ sphereGeoRef' = 1
    /\ worldInScene' = TRUE
    /\ canvasInContainer' = TRUE
    /\ cameraDistance' = INITIAL_CAMERA_DISTANCE
    /\ cameraAspect' = Aspect(CONTAINER_WIDTH, CONTAINER_HEIGHT)
    /\ listeners' = listeners \cup EngineListeners
    /\ loopScheduled' = TRUE
    /\ isInitialized' = TRUE
    /\ pc' = "passive"
    /\ UNCHANGED << objs, nextOid, world, deviceObjectsRef, materialsRef,
                    connectionGeomRef, connectionMatRef, connectionLinesRef,
                    rendererDisposed, dragState, rotation, snapshots,
                    removed, pointer, lastEvent >>
    /\ UNCHANGED highlightVars
    /\ UNCHANGED hookVars
    /\ UNCHANGED dashboardVars

\* The first commit: the init effect runs with isInitialized = FALSE and
\* builds the engine; the passive effects of this commit see
\* isInitialized = FALSE and an empty registry and do nothing.  The state
\* update of setIsInitialized(true) starts the second commit.
Mount(devs, conns) ==
    /\ pc = "new"
    /\ devices' = devs
    /\ connections' = conns
    /\ res' = << NewRes("sphereGeo") >>
    /\ sphereGeoRef' = 1
    /\ worldInScene' = TRUE
    /\ canvasInContainer' = TRUE
    /\ cameraDistance' = INITIAL_CAMERA_DISTANCE
    /\ cameraAspect' = Aspect(CONTAINER_WIDTH, CONTAINER_HEIGHT)
    /\ listeners' = listeners \cup EngineListeners
    /\ loopScheduled' = TRUE
    /\ isInitialized' = TRUE
    /\ pc' = "cleanup_listeners"
    /\ UNCHANGED << objs, nextOid, world, deviceObjectsRef, materialsRef,
                    connectionGeomRef, connectionMatRef, connectionLinesRef,
                    rendererDisposed, dragState, rotation, snapshots,
                    removed, pointer, lastEvent >>
    /\ UNCHANGED highlightVars
    /\ UNCHANGED hookVars
    /\ UNCHANGED dashboardVars

\* The second commit starts with the cleanup of the first run of the init
\* effect, because its dependency isInitialized changed.
CleanupListeners ==
    /\ pc = "cleanup_listeners"
    /\ listeners' = DetachEngineListeners(listeners)
    /\ pc' = "cleanup_loop"
    /\ UNCHANGED << isInitialized, devices, connections, res, objs, nextOid,
                    world, worldInScene, deviceObjectsRef, materialsRef,
                    sphereGeoRef, connectionGeomRef, connectionMatRef,
                    connectionLinesRef, loopScheduled, rendererDisposed,
                    canvasInContainer, dragState, cameraDistance,
                    cameraAspect, rotation, snapshots, removed, pointer, lastEvent >>
    /\ UNCHANGED highlightVars
    /\ UNCHANGED hookVars
    /\ UNCHANGED dashboardVars

CleanupLoop ==
    /\ pc = "cleanup_loop"
    /\ loopScheduled' = FALSE
    /\ pc' = "cleanup_world"
    /\ UNCHANGED << isInitialized, devices, connections, res, objs, nextOid,
                    world, worldInScene, deviceObjectsRef, materialsRef,
                    sphereGeoRef, connectionGeomRef, connectionMatRef,
                    connectionLinesRef, listeners, rendererDisposed,
                    canvasInContainer, dragState, cameraDistance,
                    cameraAspect, rotation, snapshots, removed, pointer, lastEvent >>
    /\ UNCHANGED highlightVars
    /\ UNCHANGED hookVars
    /\ UNCHANGED dashboardVars

CleanupWorld ==
    /\ pc = "cleanup_world"
    /\ res' = TraverseDispose(res, objs, world, 1)
    /\ worldInScene' = FALSE
    /\ pc' = "cleanup_pools"
    /\ UNCHANGED << isInitialized, devices, connections, objs, nextOid,
                    world, deviceObjectsRef, materialsRef, sphereGeoRef,
                    connectionGeomRef, connectionMatRef, connectionLinesRef,
                    listeners, loopScheduled, rendererDisposed,
                    canvasInContainer, dragState, cameraDistance,
                    cameraAspect, rotation, snapshots, removed, pointer, lastEvent >>
    /\ UNCHANGED highlightVars
    /\ UNCHANGED hookVars
    /\ UNCHANGED dashboardVars

CleanupPools ==
    /\ pc = "cleanup_pools"
    /\ res' = DisposePools(res)
    /\ materialsRef' = [k \in MaterialKeys |-> 0]
    /\ pc' = "cleanup_renderer"
    /\ UNCHANGED << isInitialized, devices, connections, objs, nextOid,
                    world, worldInScene, deviceObjectsRef, sphereGeoRef,
                    connectionGeomRef, connectionMatRef, connectionLinesRef,
                    listeners, loopScheduled, rendererDisposed,
                    canvasInContainer, dragState, cameraDistance,
                    cameraAspect, rotation, snapshots, removed, pointer, lastEvent >>
    /\ UNCHANGED highlightVars
    /\ UNCHANGED hookVars
    /\ UNCHANGED dashboardVars

CleanupRenderer ==
    /\ pc = "cleanup_renderer"
    /\ rendererDisposed' = rendererDisposed + 1
    /\ canvasInContainer' = FALSE
    /\ pc' = "passive"
    /\ UNCHANGED << isInitialized, devices, connections, res, objs, nextOid,
                    world, worldInScene, deviceObjectsRef, materialsRef,
                    sphereGeoRef, connectionGeomRef, connectionMatRef,
                    connectionLinesRef, listeners, loopScheduled, dragState,
                    cameraDistance, cameraAspect, rotation, snapshots,
                    removed, pointer, lastEvent >>
    /\ UNCHANGED highlightVars
    /\ UNCHANGED hookVars
    /\ UNCHANGED dashboardVars

\* The guard of the sync effect.
SyncGuard == isInitialized /\ worldInit /\ sphereGeoRef # 0

\* The init effect re-runs with isInitialized = TRUE and returns at its
\* guard without a cleanup; then the passive effects whose dependencies
\* changed run: the sync effect and the highlight effect, which depend on
\* isInitialized.
\* An effect that throws ends the passive effects of the component, and
\* React unmounts the tree: pc = "error".
CommitInitialized ==
    /\ pc = "passive"
    /\ IF SyncGuard /\ SyncThrows(devices)
       THEN /\ SetHeap(SyncEffectThrown(Heap, devices))
            /\ UNCHANGED << listeners, tweens >>
            /\ pc' = "error"
       ELSE /\ IF SyncGuard
               THEN /\ SetHeap(SyncEffect(Heap, devices, connections))
                    /\ listeners' = listeners \cup {"click"}
               ELSE UNCHANGED << res, objs, nextOid, world, deviceObjectsRef,
                                 materialsRef, connectionGeomRef,
                                 connectionMatRef, connectionLinesRef,
                                 listeners >>
            /\ tweens' =
                  IF isInitialized
                  THEN tweens \o HighlightEffect(objs', deviceObjectsRef',
                                  RegistryOrder(devices, deviceObjectsRef', 1),
                                  selectedDevice, 1)
                  ELSE tweens
            /\ pc' = "ready"
    /\ UNCHANGED << selectedDevice, opacity, selections, highlighted >>
    /\ UNCHANGED hookVars
    /\ UNCHANGED dashboardVars
    /\ UNCHANGED << isInitialized, devices, connections, worldInScene,
                    sphereGeoRef, loopScheduled, rendererDisposed,
                    canvasInContainer, dragState, cameraDistance,
                    cameraAspect, rotation, snapshots, removed, pointer, lastEvent >>

\* The parent renders new devices and connections arrays: the cleanup of
\* the previous sync effect, the sync effect, then the workload effect.
Snapshot(devs, conns) ==
    /\ pc = "ready"
    /\ snapshots < MaxSnapshots
    /\ snapshots' = snapshots + 1
    /\ removed' = (DOMAIN deviceObjectsRef) \ Ids(devs)
    /\ devices' = devs
    /\ connections' = conns
    /\ IF SyncGuard /\ SyncThrows(devs)
       THEN /\ SetHeap(SyncEffectThrown(Heap, devs))
            /\ listeners' = listeners \ {"click"}
            /\ pc' = "error"
       ELSE /\ IF SyncGuard
               THEN /\ SetHeap(WorkloadEffect(SyncEffect(Heap, devs, conns),
                                              devs, 1))
                    /\ listeners' = (listeners \ {"click"}) \cup {"click"}
               ELSE /\ SetHeap(WorkloadEffect(Heap, devs, 1))
                    /\ listeners' = listeners \ {"click"}
            /\ pc' = pc
    /\ lastEvent' = NoEvent
    /\ UNCHANGED << isInitialized, worldInScene, sphereGeoRef,
                    loopScheduled, rendererDisposed, canvasInContainer,
                    dragState, cameraDistance, cameraAspect, rotation,
                    pointer >>
    /\ UNCHANGED highlightVars
    /\ UNCHANGED hookVars
    /\ UNCHANGED dashboardVars

\* Unmount: React runs the cleanup returned by the last run of each
\* effect.  The last run of the init effect returned at its guard, so it
\* has none; the sync effect's cleanup removes the click listener.
Unmount ==
    /\ pc = "ready"
    /\ pc' = "unmounted"
    /\ listeners' = listeners \ {"click"}
    /\ lastEvent' = NoEvent
    /\ UNCHANGED << isInitialized, devices, connections, res, objs, nextOid,
                    world, worldInScene, deviceObjectsRef, materialsRef,
                    sphereGeoRef, connectionGeomRef, connectionMatRef,
                    connectionLinesRef, loopScheduled, rendererDisposed,
                    canvasInContainer, dragState, cameraDistance,
                    cameraAspect, rotation, snapshots, removed, pointer >>
    /\ UNCHANGED highlightVars
    /\ UNCHANGED hookVars
    /\ UNCHANGED dashboardVars

\* The parent renders a new selectedDevice: the highlight effect runs.
Select(sel) ==
    /\ pc = "ready"
    /\ selections < MaxSelections
    /\ ~(sel = Null /\ selectedDevice = Null)
    /\ selections' = selections + 1
    /\ selectedDevice' = sel
    /\ highlighted' = IF sel = selectedDevice THEN highlighted ELSE Null
    /\ tweens' = IF isInitialized
                 THEN tweens \o HighlightEffect(objs, deviceObjectsRef,
                                  RegistryOrder(devices, deviceObjectsRef, 1),
                                  sel, 1)
                 ELSE tweens
    /\ lastEvent' = NoEvent
    /\ UNCHANGED << pc, isInitialized, devices, connections, res, objs,
                    nextOid, world, worldInScene, deviceObjectsRef,
                    materialsRef, sphereGeoRef, connectionGeomRef,
                    connectionMatRef, connectionLinesRef, listeners,
                    loopScheduled, rendererDisposed, canvasInContainer,
                    dragState, cameraDistance, cameraAspect, rotation,
                    snapshots, removed, pointer, opacity >>
    /\ UNCHANGED hookVars
    /\ UNCHANGED dashboardVars

\* One of the tweens in progress takes the body registered for the selected
\* id to the selected scale.
HighlightCompletes(reg, tws, sel) ==
    /\ sel \in DOMAIN reg
    /\ \E i \in 1..Len(tws) : /\ tws[i].kind = "scale"
                             /\ tws[i].target = reg[sel].mesh
                             /\ tws[i].to = SELECTED_SCALE

\* The gsap ticker has run for the duration of every tween in progress.
TweensComplete ==
    /\ pc = "ready"
    /\ tweens # << >>
    /\ objs' = CompleteScales(objs, tweens, 1)
    /\ opacity' = CompleteOpacities(opacity, tweens, 1)
    /\ tweens' = << >>
    /\ highlighted' = IF HighlightCompletes(deviceObjectsRef, tweens,
                                            selectedDevice)
                      THEN selectedDevice ELSE highlighted
    /\ lastEvent' = NoEvent
    /\ UNCHANGED << pc, isInitialized, devices, connections, res, nextOid,
                    world, worldInScene, deviceObjectsRef, materialsRef,
                    sphereGeoRef, connectionGeomRef, connectionMatRef,
                    connectionLinesRef, listeners, loopScheduled,
                    rendererDisposed, canvasInContainer, dragState,
                    cameraDistance, cameraAspect, rotation, snapshots,
                    removed, pointer, selectedDevice, selections >>
    /\ UNCHANGED hookVars
    /\ UNCHANGED dashboardVars

\* ------------------------------------------------------ the input handlers
Abs(n) == IF n < 0 THEN -n ELSE n

\* Math.hypot, rounded down to whole pixels.
Hypot(dx, dy) ==
    CHOOSE r \in 0..(Abs(dx) + Abs(dy)) :
        r * r <= dx * dx + dy * dy /\ (r + 1) * (r + 1) > dx * dx + dy * dy

onMouseDown(ds, p) ==
    [ds EXCEPT !.isMouseDown = TRUE, !.lastX = p[1], !.lastY = p[2],
               !.dragDistance = 0]

onMouseMove(ds, p) ==
    IF ~ds.isMouseDown THEN ds
    ELSE LET dx == p[1] - ds.lastX
             dy == p[2] - ds.lastY
         IN [ds EXCEPT !.dragDistance = @ + Hypot(dx, dy),
                       !.velocityX = dx * 10000,
                       !.velocityY = dy * 10000,
                       !.lastX = p[1], !.lastY = p[2]]

\* world.rotation after onMouseMove.
RotateByDrag(rot, ds, p) ==
    IF ~ds.isMouseDown THEN rot
    ELSE LET dx == p[1] - ds.lastX
             dy == p[2] - ds.lastY
         IN [x |-> Clamp(rot.x + dy * 5000, -HALF_PI, HALF_PI),
             y |-> rot.y + dx * 5000]

onMouseUp(ds) == [ds EXCEPT !.isMouseDown = FALSE]

onWheel(dist, dir) ==
    Clamp((dist * (10 + dir)) \div 10, MIN_DISTANCE, MAX_DISTANCE)

\* The browser's pointer, whether or not a listener is attached.
PointerDown(pt, p) == [down |-> TRUE, position |-> p, distance |-> 0]

PointerMove(pt, p) ==
    [pt EXCEPT !.position = p,
               !.distance = IF pt.down
                            THEN @ + Hypot(p[1] - pt.position[1],
                                           p[2] - pt.position[2])
                            ELSE @]

UnchangedEngine ==
    UNCHANGED << pc, isInitialized, devices, connections, res, objs, nextOid,
                 world, worldInScene, deviceObjectsRef, materialsRef,
                 sphereGeoRef, connectionGeomRef, connectionMatRef,
                 connectionLinesRef, listeners, loopScheduled,
                 rendererDisposed, canvasInContainer, snapshots, removed >>

MouseDown(p) ==
    /\ pc = "ready"
    /\ pointer' = PointerDown(pointer, p)
    /\ dragState' = IF "mousedown" \in listeners
                    THEN onMouseDown(dragState, p) ELSE dragState
    /\ lastEvent' = [type |-> "mousedown"]
    /\ UnchangedEngine
    /\ UNCHANGED << cameraDistance, cameraAspect, rotation >>
    /\ UNCHANGED highlightVars
    /\ UNCHANGED hookVars
    /\ UNCHANGED dashboardVars

MouseMove(p) ==
    /\ pc = "ready"
    /\ PointerMove(pointer, p).distance <= MaxDragDistance
    /\ pointer' = PointerMove(pointer, p)
    /\ dragState' = IF "mousemove" \in listeners
                    THEN onMouseMove(dragState, p) ELSE dragState
    /\ rotation' = IF "mousemove" \in listeners
                   THEN RotateByDrag(rotation, dragState, p) ELSE rotation
    /\ lastEvent' = [type |-> "mousemove"]
    /\ UnchangedEngine
    /\ UNCHANGED << cameraDistance, cameraAspect >>
    /\ UNCHANGED highlightVars
    /\ UNCHANGED hookVars
    /\ UNCHANGED dashboardVars

MouseUp ==
    /\ pc = "ready"
    /\ pointer' = [pointer EXCEPT !.down = FALSE]
    /\ dragState' = IF "mouseup" \in listeners
                    THEN onMouseUp(dragState) ELSE dragState
    /\ lastEvent' = [type |-> "mouseup"]
    /\ UnchangedEngine
    /\ UNCHANGED << cameraDistance, cameraAspect, rotation >>
    /\ UNCHANGED highlightVars
    /\ UNCHANGED hookVars
    /\ UNCHANGED dashboardVars

Wheel(dir) ==
    /\ pc = "ready"
    /\ cameraDistance' = IF "wheel" \in listeners
                         THEN onWheel(cameraDistance, dir) ELSE cameraDistance
    /\ lastEvent' = [type |-> "wheel", dir |-> dir]
    /\ UnchangedEngine
    /\ UNCHANGED << dragState, cameraAspect, rotation, pointer >>
    /\ UNCHANGED highlightVars
    /\ UNCHANGED hookVars
    /\ UNCHANGED dashboardVars

\* onResize, with the container's new client size.
Resize(w, h) ==
    /\ pc = "ready"
    /\ cameraAspect' = IF "resize" \in listeners
                       THEN Aspect(w, h) ELSE cameraAspect
    /\ lastEvent' = [type |-> "resize", width |-> w, height |-> h]
    /\ UnchangedEngine
    /\ UNCHANGED << dragState, cameraDistance, rotation, pointer >>
    /\ UNCHANGED highlightVars
    /\ UNCHANGED hookVars
    /\ UNCHANGED dashboardVars

\* handleClick: what it leaves in dragState.dragDistance, and the ids it
\* hands to onDeviceSelect.  hits is the raycaster's result, nearest first.
ClickDragDistance(ds) ==
    IF ds.dragDistance > DRAG_THRESHOLD THEN 0 ELSE ds.dragDistance

handleClick(ds, os, hits) ==
    IF ds.dragDistance > DRAG_THRESHOLD THEN << >>
    ELSE IF Len(hits) > 0 THEN << os[hits[1]].deviceId >>
    ELSE << >>

\* The results Raycaster.intersectObjects can return for the registered
\* bodies: each body at most once, in any order of distance.
RegisteredMeshes == { deviceObjectsRef[id].mesh : id \in DOMAIN deviceObjectsRef }

HitLists ==
    { h \in SeqsUpTo(RegisteredMeshes, Cardinality(RegisteredMeshes)) :
        \A i, j \in 1..Len(h) : i # j => h[i] # h[j] }

Click(hits) ==
    /\ pc = "ready"
    /\ dragState' = IF "click" \in listeners
                    THEN [dragState EXCEPT
                            !.dragDistance = ClickDragDistance(dragState)]
                    ELSE dragState
    /\ lastEvent' = [type |-> "click",
                     nearest |-> IF Len(hits) > 0
                                 THEN << objs[hits[1]].deviceId >> ELSE << >>,
                     selected |-> IF "click" \in listeners
                                  THEN handleClick(dragState, objs, hits)
                                  ELSE << >>]
    /\ UnchangedEngine
    /\ UNCHANGED << cameraDistance, cameraAspect, rotation, pointer >>
    /\ UNCHANGED highlightVars
    /\ UNCHANGED hookVars
    /\ UNCHANGED dashboardVars

\* ------------------------------------------------------ the frame callback
Damp(v) == IF v >= 0 THEN (v * 95) \div 100 ELSE -(((-v) * 95) \div 100)

\* animate: idle rotation and inertia when not dragging.
AnimateRotation(rot, ds) ==
    IF ds.isMouseDown THEN rot
    ELSE [x |-> rot.x + ds.velocityY,
          y |-> rot.y + IDLE_STEP + ds.velocityX]

AnimateDrag(ds) ==
    IF ds.isMouseDown THEN ds
    ELSE [ds EXCEPT !.velocityX = Damp(@), !.velocityY = Damp(@)]

\* animate: the pulsation scale of every registered body; sin is
\* sin(elapsedTime * 2) in thousandths.
Pulse(os, sin) ==
    [o \in DOMAIN os |->
        IF o \in RegisteredMeshes
        THEN [os[o] EXCEPT !.scale = 1000 + (sin * os[o].workload) \div 1000]
        ELSE os[o]]

SinSamples == {-1000, 0, 1000}

\* A frame callback that outlives setAnimationLoop(null).
FrameStillScheduled(sin) ==
    /\ pc = "ready"
    /\ rotation' = AnimateRotation(rotation, dragState)
    /\ dragState' = AnimateDrag(dragState)
    /\ objs' = Pulse(objs, sin)
    /\ lastEvent' = [type |-> "frame"]
    /\ UNCHANGED << pc, isInitialized, devices, connections, res, nextOid,
                    world, worldInScene, deviceObjectsRef, materialsRef,
                    sphereGeoRef, connectionGeomRef, connectionMatRef,
                    connectionLinesRef, listeners, loopScheduled,
                    rendererDisposed, canvasInContainer, snapshots, removed,
                    cameraDistance, cameraAspect, pointer >>
    /\ UNCHANGED highlightVars
    /\ UNCHANGED hookVars
    /\ UNCHANGED dashboardVars

\* An animation frame of the browser; animate runs when the loop is set.
Frame(sin) ==
    /\ pc = "ready"
    /\ rotation' = IF loopScheduled
                   THEN AnimateRotation(rotation, dragState) ELSE rotation
    /\ dragState' = IF loopScheduled THEN AnimateDrag(dragState) ELSE dragState
    /\ objs' = IF loopScheduled THEN Pulse(objs, sin) ELSE objs
    /\ lastEvent' = [type |-> "frame"]
    /\ UNCHANGED << pc, isInitialized, devices, connections, res, nextOid,
                    world, worldInScene, deviceObjectsRef, materialsRef,
                    sphereGeoRef, connectionGeomRef, connectionMatRef,
                    connectionLinesRef, listeners, loopScheduled,
                    rendererDisposed, canvasInContainer, snapshots, removed,
                    cameraDistance, cameraAspect, pointer >>
    /\ UNCHANGED highlightVars
    /\ UNCHANGED hookVars
    /\ UNCHANGED dashboardVars

\* ------------------------------------------------- the useNetworkData hook
\* A call of fetchData awaiting fetchAgentStatus: n numbers the calls, the
\* other fields are what the fetchData of the calling render closed over
\* and what called it.
FetchCall(n, sel, loading, cause) ==
    [n |-> n, selectedDevice |-> sel, isLoading |-> loading, cause |-> cause]

\* useCallback(..., [selectedDevice, isLoading]): fetchData is a new
\* function exactly when one of the two states is a new value.
FetchDataChanged(sel, loading, newSel, newLoading) ==
    sel # newSel \/ loading # newLoading

\* The commit of a render with the states newSel and newLoading: when
\* fetchData changed, the polling effect clears its interval, calls the
\* new fetchData at once and sets a new interval.
PollingEffect(fl, n, newSel, newLoading) ==
    IF FetchDataChanged(selectedDeviceState, isLoading, newSel, newLoading)
    THEN fl \cup { FetchCall(n + 1, newSel, newLoading, "effect") }
    ELSE fl

PollingEffectCalls(newSel, newLoading) ==
    IF FetchDataChanged(selectedDeviceState, isLoading, newSel, newLoading)
    THEN 1 ELSE 0

\* The state changes of one render commit of the hook.
HookCommit(fl, newSel, newLoading) ==
    /\ fetchesStarted + PollingEffectCalls(newSel, newLoading) <= MaxFetches
    /\ selectedDeviceState' = newSel
    /\ isLoading' = newLoading
    /\ inflight' = PollingEffect(fl, fetchesStarted, newSel, newLoading)
    /\ fetchesStarted' =
          fetchesStarted + PollingEffectCalls(newSel, newLoading)

\* The first render and its polling effect: fetchData() and setInterval.
HookMount ==
    /\ ~hookMounted
    /\ fetchesStarted = 0
    /\ hookMounted' = TRUE
    /\ inflight' = { FetchCall(1, selectedDeviceState, isLoading, "mount") }
    /\ fetchesStarted' = 1
    /\ UNCHANGED << topology, topologyVersion, topologyFetch,
                            selectedDeviceState,
                    isLoading, fetchesCompleted >>
    /\ UNCHANGED componentVars
    /\ UNCHANGED dashboardVars

\* The interval fires and calls the fetchData of the current render.
Tick ==
    /\ hookMounted
    /\ fetchesStarted < MaxFetches
    /\ inflight' = inflight \cup
          { FetchCall(fetchesStarted + 1, selectedDeviceState, isLoading,
                      "tick") }
    /\ fetchesStarted' = fetchesStarted + 1
    /\ UNCHANGED << hookMounted, topology, topologyVersion, topologyFetch,
                    selectedDeviceState, isLoading, fetchesCompleted >>
    /\ UNCHANGED componentVars
    /\ UNCHANGED dashboardVars

\* fetchData after the await, in its try block: what it sets
\* selectedDevice to.
UpdatedSelection(f, devs, version) ==
    IF f.selectedDevice.id # Null
    THEN IF f.selectedDevice.id \in devs
         THEN [id |-> f.selectedDevice.id, version |-> version]
         ELSE NoDevice
    ELSE selectedDeviceState

\* fetchData in its finally block: what it sets isLoading to.
UpdatedLoading(f) == IF f.isLoading THEN FALSE ELSE isLoading

\* fetchAgentStatus resolves with the device ids devs for the call f.
FetchResolved(f, devs) ==
    /\ f \in inflight
    /\ fetchesCompleted' = fetchesCompleted + 1
    /\ IF hookMounted
       THEN /\ topology' = devs
            /\ topologyVersion' = topologyVersion + 1
            /\ topologyFetch' = f.n
            /\ HookCommit(inflight \ {f},
                          UpdatedSelection(f, devs, topologyVersion + 1),
                          UpdatedLoading(f))
       ELSE /\ inflight' = inflight \ {f}
            /\ UNCHANGED << topology, topologyVersion, topologyFetch,
                            selectedDeviceState,
                            isLoading, fetchesStarted >>
    /\ UNCHANGED hookMounted
    /\ UNCHANGED componentVars
    /\ UNCHANGED dashboardVars

\* fetchAgentStatus rejects for the call f: the catch and finally blocks.
FetchRejected(f) ==
    /\ f \in inflight
    /\ fetchesCompleted' = fetchesCompleted + 1
    /\ IF hookMounted
       THEN HookCommit(inflight \ {f}, selectedDeviceState, UpdatedLoading(f))
       ELSE /\ inflight' = inflight \ {f}
            /\ UNCHANGED << selectedDeviceState, isLoading, fetchesStarted >>
    /\ UNCHANGED << hookMounted, topology, topologyVersion, topologyFetch >>
    /\ UNCHANGED componentVars
    /\ UNCHANGED dashboardVars

selectDevice(id) ==
    /\ hookMounted
    /\ topologyVersion # 0
    /\ IF id \in topology
       THEN HookCommit(inflight, [id |-> id, version |-> topologyVersion],
                       isLoading)
       ELSE UNCHANGED << selectedDeviceState, isLoading, inflight,
                         fetchesStarted >>
    /\ UNCHANGED << hookMounted, topology, topologyVersion, topologyFetch,
                    fetchesCompleted >>
    /\ UNCHANGED componentVars
    /\ UNCHANGED dashboardVars

clearSelection ==
    /\ hookMounted
    /\ HookCommit(inflight, NoDevice, isLoading)
    /\ UNCHANGED << hookMounted, topology, topologyVersion, topologyFetch,
                    fetchesCompleted >>
    /\ UNCHANGED componentVars
    /\ UNCHANGED dashboardVars

\* The cleanup of the polling effect at unmount: clearInterval.
HookUnmount ==
    /\ hookMounted
    /\ hookMounted' = FALSE
    /\ UNCHANGED << topology, topologyVersion, topologyFetch,
                            selectedDeviceState,
                    isLoading, inflight, fetchesStarted, fetchesCompleted >>
    /\ UNCHANGED componentVars
    /\ UNCHANGED dashboardVars

\* The responses of the status endpoint.
Topologies == { {"d1", "d2"}, {"d2"} }

\* ------------------------------------------------ the GuardianDashboard
\* The devices fetchAllAIAnalyses asks an analysis for.
DevicesToAnalyze(devs) ==
    { devs[i].id : i \in { k \in 1..Len(devs) :
                              devs[k].status \in {"critical", "warning"} } }

\* The cleanup of the analysis effect: cancelled = true in the closure of
\* the run it belongs to.
CancelRuns(runs) == { [r EXCEPT !.cancelled = TRUE] : r \in runs }

\* The analysis effect for a new topology prop (the first is the mount):
\* the cleanup of the previous run, then the effect body.
DashboardRender(devs) ==
    /\ topologiesRendered < MaxTopologies
    /\ dashboardMounted \/ topologiesRendered = 0
    /\ dashboardMounted' = TRUE
    /\ dashboardTopology' = devs
    /\ topologiesRendered' = topologiesRendered + 1
    /\ IF Len(devs) > 0 /\ DevicesToAnalyze(devs) # {}
       THEN /\ aiLoading' = TRUE
            /\ aiRuns' = CancelRuns(aiRuns) \cup
                  { [n |-> topologiesRendered + 1, cancelled |-> FALSE,
                     ids |-> DevicesToAnalyze(devs)] }
            /\ UNCHANGED << aiAnalyses, lastScanAt >>
       ELSE /\ aiAnalyses' = {}
            /\ lastScanAt' = lastScanAt + 1
            /\ aiRuns' = CancelRuns(aiRuns)
            /\ UNCHANGED aiLoading
    /\ UNCHANGED componentVars
    /\ UNCHANGED hookVars

\* Promise.allSettled resolves for the run r: every request has returned
\* or failed, and a failed one is mapped to an error analysis.
AnalysesSettled(r) ==
    /\ r \in aiRuns
    /\ aiRuns' = aiRuns \ {r}
    /\ IF r.cancelled
       THEN UNCHANGED << aiLoading, aiAnalyses, lastScanAt >>
       ELSE /\ aiAnalyses' = r.ids
            /\ lastScanAt' = lastScanAt + 1
            /\ aiLoading' = FALSE
    /\ UNCHANGED << dashboardMounted, dashboardTopology, topologiesRendered >>
    /\ UNCHANGED componentVars
    /\ UNCHANGED hookVars

\* Unmount: the cleanup of the last run of the analysis effect.
DashboardUnmount ==
    /\ dashboardMounted
    /\ dashboardMounted' = FALSE
    /\ aiRuns' = CancelRuns(aiRuns)
    /\ UNCHANGED << dashboardTopology, topologiesRendered, aiLoading,
                    aiAnalyses, lastScanAt >>
    /\ UNCHANGED componentVars
    /\ UNCHANGED hookVars

\* The topologies the dashboard is rendered with.
DashboardTopologies ==
    { << >>,
      << Dev("d1", "healthy", Origin, 0) >>,
      << Dev("d2", "critical", East, 50) >>,
      << Dev("d1", "healthy", Origin, 0), Dev("d2", "critical", East, 50) >> }

\* ------------------------------------------------------- the specification
\* The component's life cycle.
LifeCycle ==
    \/ \E devs \in DeviceLists, conns \in ConnectionLists : Mount(devs, conns)
    \/ CleanupListeners
    \/ CleanupLoop
    \/ CleanupWorld
    \/ CleanupPools
    \/ CleanupRenderer
    \/ CommitInitialized
    \/ Unmount

\* New topology snapshots from the parent.
Snapshots ==
    \E devs \in DeviceLists, conns \in ConnectionLists : Snapshot(devs, conns)

\* Input events and animation frames from the browser.
Inputs ==
    \/ \E p \in PointerPositions : MouseDown(p)
    \/ \E p \in PointerPositions : MouseMove(p)
    \/ MouseUp
    \/ \E dir \in WheelSigns : Wheel(dir)
    \/ \E w \in {0, CONTAINER_WIDTH}, h \in {0, CONTAINER_HEIGHT} : Resize(w, h)
    \/ \E hits \in HitLists : Click(hits)
    \/ \E sin \in SinSamples : Frame(sin)

SelectionIds == { "d1", "d2", "d3" }

\* Selection changes from the parent and the progress of the tweens.
Selects ==
    \/ \E sel \in SelectionIds \cup {Null} : Select(sel)
    \/ TweensComplete

\* The data path alone: life cycle and snapshots.
NextSync == LifeCycle \/ Snapshots

SpecSync == Init /\ [][NextSync]_vars

\* The input path alone: life cycle, input events and frames.
NextInput == LifeCycle \/ Inputs

SpecInput == Init /\ [][NextInput]_vars

\* The steps of the second commit, and the unmount.
Commit ==
    \/ CleanupListeners
    \/ CleanupLoop
    \/ CleanupWorld
    \/ CleanupPools
    \/ CleanupRenderer
    \/ CommitInitialized
    \/ Unmount

\* Device lists in which two devices can have the same status.
HighlightDevices == Devices \cup { Dev("d2", "healthy", East, 50) }

HighlightDeviceLists == SeqsUpTo(HighlightDevices, MaxDevices)

\* The selection path alone: life cycle, selections and tweens.
NextSelect ==
    \/ \E devs \in HighlightDeviceLists : Mount(devs, << >>)
    \/ Commit
    \/ Selects

SpecSelect == Init /\ [][NextSelect]_vars

\* Selections together with new snapshots and animation frames.
NextPulse ==
    \/ \E devs \in HighlightDeviceLists : Mount(devs, << >>)
    \/ Commit
    \/ Selects
    \/ \E devs \in HighlightDeviceLists : Snapshot(devs, << >>)
    \/ \E sin \in SinSamples : Frame(sin)

SpecPulse == Init /\ [][NextPulse]_vars

\* Device lists in which a device can lack its position or its metrics.
MalformedDevices ==
    { Dev("d1", "healthy", Origin, 0),
      [id |-> "d2", status |-> "critical", workload |-> 50],
      [id |-> "d3", status |-> "healthy", position |-> East] }

MalformedDeviceLists == SeqsUpTo(MalformedDevices, MaxDevices)

MalformedConnections == << Conn("d1", "d3", 500) >>

\* The data path with devices that lack fields.
NextMalformed ==
    \/ \E devs \in MalformedDeviceLists : Mount(devs, MalformedConnections)
    \/ Commit
    \/ \E devs \in MalformedDeviceLists : Snapshot(devs, MalformedConnections)

SpecMalformed == Init /\ [][NextMalformed]_vars

\* The hook alone: polling, responses and the user's selections.
NextHook ==
    \/ HookMount
    \/ Tick
    \/ \E f \in inflight, devs \in Topologies : FetchResolved(f, devs)
    \/ \E f \in inflight : FetchRejected(f)
    \/ \E id \in {"d1", "d2"} : selectDevice(id)
    \/ clearSelection
    \/ HookUnmount

SpecHook == Init /\ [][NextHook]_vars

\* Device lists in which an id can occur twice with different fields.
DuplicateDevices == Devices \cup { Dev("d1", "critical", East, 50) }

DuplicateDeviceLists == SeqsUpTo(DuplicateDevices, MaxDevices)

\* The data path with device lists that repeat an id.
NextDuplicate ==
    \/ \E devs \in DuplicateDeviceLists : Mount(devs, << >>)
    \/ Commit
    \/ \E devs \in DuplicateDeviceLists : Snapshot(devs, << >>)

SpecDuplicate == Init /\ [][NextDuplicate]_vars

\* Device lists that end with d2 after up to MaxDevices occurrences of d1,
\* and the connection between the two ids.
EdgeDeviceLists ==
    { devs \o << Dev("d2", "critical", East, 50) >> :
        devs \in SeqsUpTo({ Dev("d1", "healthy", Origin, 0),
                            Dev("d1", "critical", East, 50) }, MaxDevices) }

EdgeConnections == << Conn("d1", "d2", 500) >>

\* The data path with a connection whose endpoint id can be repeated.
NextEdges ==
    \/ \E devs \in EdgeDeviceLists : Mount(devs, EdgeConnections)
    \/ Commit
    \/ \E devs \in EdgeDeviceLists : Snapshot(devs, EdgeConnections)

SpecEdges == Init /\ [][NextEdges]_vars

\* The dashboard alone: topology props and analysis responses.
NextDashboard ==
    \/ \E devs \in DashboardTopologies : DashboardRender(devs)
    \/ \E r \in aiRuns : AnalysesSettled(r)
    \/ DashboardUnmount

SpecDashboard == Init /\ [][NextDashboard]_vars

\* The component, the hook and the dashboard together.
Next == LifeCycle \/ Snapshots \/ Inputs \/ Selects \/ NextHook
           \/ NextDashboard

Spec == Init /\ [][Next]_vars

\* ---------------------------------------------------------- the properties
Synced == pc \in {"ready", "unmounted"}

Resources == 1..Len(res)

\* C1: after the sync effect has run with any device list, the number of
\* bundles in deviceObjectsRef equals the number of distinct device ids of
\* the list.
C1_BundlesPerDistinctId ==
    Synced => Cardinality(DOMAIN deviceObjectsRef) = Cardinality(Ids(devices))

C1_Witness ==
    /\ pc = "ready"
    /\ snapshots > 0
    /\ Len(devices) = 2
    /\ Cardinality(Ids(devices)) = 1
    /\ Cardinality(DOMAIN deviceObjectsRef) = 1

\* C2: after the component is unmounted, every geometry, material and
\* texture the engine ever created has been disposed.
C2_NoLeakAfterUnmount ==
    pc = "unmounted" => \A r \in Resources : res[r].disposed > 0

\* C3: a click after more than DRAG_THRESHOLD pixels of pointer movement
\* since the last pointerdown never invokes onDeviceSelect and leaves the
\* distance counter at 0; a click after at most that much movement whose
\* ray hits a body invokes onDeviceSelect exactly once, with the id of the
\* nearest body hit.
C3_ClickStep ==
    lastEvent'.type = "click" /\ pc = "ready" =>
        IF pointer.distance > DRAG_THRESHOLD
        THEN lastEvent'.selected = << >> /\ dragState'.dragDistance = 0
        ELSE lastEvent'.selected = lastEvent'.nearest

C4_WheelStep ==
    /\ pc # "new" =>
          cameraDistance >= MIN_DISTANCE /\ cameraDistance <= MAX_DISTANCE
    /\ lastEvent'.type = "wheel" /\ pc = "ready" =>
          cameraDistance' =
              Clamp((cameraDistance * (10 + lastEvent'.dir)) \div 10,
                    MIN_DISTANCE, MAX_DISTANCE)

C4_WheelZoomClamped == [][C4_WheelStep]_vars

\* C5: after a rebuild the installed batch holds 6*N position floats and
\* 6*N colour floats, N the number of connections whose from id and to id
\* both occur in the device list; with N = 0 nothing is installed.
ValidCount ==
    Cardinality({ i \in 1..Len(connections) :
                    /\ connections[i].from \in Ids(devices)
                    /\ connections[i].to \in Ids(devices) })

C5_BatchVertexCount ==
    Synced =>
        IF ValidCount = 0
        THEN connectionLinesRef = 0
        ELSE /\ connectionLinesRef # 0
             /\ Len(objs[connectionLinesRef].positions) = 6 * ValidCount
             /\ Len(objs[connectionLinesRef].colors) = 6 * ValidCount

C5_Witness ==
    /\ pc = "ready"
    /\ snapshots > 0
    /\ Len(connections) = 1
    /\ connections[1].from \in Ids(devices)
    /\ connections[1].to \notin Ids(devices)
    /\ connectionLinesRef = 0
    /\ connectionGeomRef # 0

\* C6: a sync whose snapshot lacks a live id removes that bundle's body and
\* label from world and from the registry and disposes its label texture
\* and label material, which are never disposed more than once; the sync
\* does not dispose the body's geometry or material.
C6_RemovalStep ==
    snapshots' # snapshots =>
        \A id \in (DOMAIN deviceObjectsRef) \ Ids(devices') :
            LET b == deviceObjectsRef[id]
                label == objs[b.label]
                body == objs[b.mesh]
            IN /\ id \notin DOMAIN deviceObjectsRef'
               /\ \A k \in 1..Len(world') : world'[k] \notin {b.mesh, b.label}
               /\ res'[label.map].disposed = 1
               /\ res'[label.material].disposed = 1
               /\ res'[body.geometry].disposed = res[body.geometry].disposed
               /\ res'[body.material].disposed = res[body.material].disposed

LabelsDisposedAtMostOnce ==
    \A r \in Resources :
        res[r].kind \in {"labelTexture", "labelMaterial"} =>
            res[r].disposed <= 1

C7_DisposedExactlyOnce ==
    pc = "unmounted" => \A r \in Resources : res[r].disposed = 1

\* C8: during the init effect's cleanup nothing is disposed while the frame
\* callback is scheduled or a listener registered by the engine is attached.
InCleanup ==
    pc \in {"cleanup_listeners", "cleanup_loop", "cleanup_world",
            "cleanup_pools", "cleanup_renderer"}

C8_CleanupStep ==
    InCleanup /\ (res' # res \/ rendererDisposed' # rendererDisposed) =>
        listeners = {} /\ ~loopScheduled

C8_DetachBeforeDispose == [][C8_CleanupStep]_vars

C8_Witness ==
    /\ pc = "passive"
    /\ rendererDisposed = 1
    /\ \E r \in Resources : res[r].disposed = 1
    /\ listeners = {}
    /\ ~loopScheduled

\* C9: before the component unmounts no registered body references a
\* disposed geometry or a disposed material.
C9_PoolAliveWhileReferenced ==
    pc # "unmounted" =>
        \A id \in DOMAIN deviceObjectsRef :
            LET body == objs[deviceObjectsRef[id].mesh]
            IN /\ res[body.geometry].disposed = 0
               /\ res[body.material].disposed = 0

\* C10: a sync whose snapshot contains an id with a live bundle keeps that
\* bundle: the same body and label stay in the registry and in world, and
\* the label texture is not disposed.
C10_UpdateStep ==
    snapshots' # snapshots =>
        \A id \in (DOMAIN deviceObjectsRef) \cap Ids(devices') :
            LET b == deviceObjectsRef[id]
            IN /\ id \in DOMAIN deviceObjectsRef'
               /\ deviceObjectsRef'[id] = b
               /\ \E k \in 1..Len(world') : world'[k] = b.mesh
               /\ \E k \in 1..Len(world') : world'[k] = b.label
               /\ res'[objs[b.label].map].disposed = 0

C10_BundleUpdatedInPlace == [][C10_UpdateStep]_vars

\* No resource is disposed more than once.
DisposedAtMostOnce == \A r \in Resources : res[r].disposed <= 1

\* The scale and the opacity a body has once the tweens in progress have
\* completed.
SettledScale(os, tws, mesh) == CompleteScales(os, tws, 1)[mesh].scale

SettledOpacity(op, tws, rid) == Opacity(CompleteOpacities(op, tws, 1), rid)

\* C11: a selection change to an id with no live bundle leaves, for every
\* live bundle, the body's scale and opacity and the values its running
\* highlight animations end at exactly as before.
C11_SelectStep ==
    /\ selections' # selections
    /\ selectedDevice' # Null
    /\ selectedDevice' \notin DOMAIN deviceObjectsRef
    => \A id \in DOMAIN deviceObjectsRef :
          LET mesh == deviceObjectsRef[id].mesh
              mat == objs[mesh].material
          IN /\ objs'[mesh].scale = objs[mesh].scale
             /\ Opacity(opacity', mat) = Opacity(opacity, mat)
             /\ SettledScale(objs', tweens', mesh)
                   = SettledScale(objs, tweens, mesh)
             /\ SettledOpacity(opacity', tweens', mat)
                   = SettledOpacity(opacity, tweens, mat)

C11_AbsentSelectionNoEffect == [][C11_SelectStep]_vars

\* C14: once a live bundle is selected and every tween has completed, a
\* live body has opacity 1 exactly when its id is the selected id, and
\* every other live body has the dimmed opacity.
C14_SelectedAloneOpaque ==
    /\ pc = "ready"
    /\ tweens = << >>
    /\ selectedDevice \in DOMAIN deviceObjectsRef
    => \A id \in DOMAIN deviceObjectsRef :
          Opacity(opacity, objs[deviceObjectsRef[id].mesh].material)
             = IF id = selectedDevice THEN SELECTED_OPACITY
               ELSE UNSELECTED_OPACITY

\* The last occurrence of an id in a device list.
LastIndex(devs, id) ==
    CHOOSE k \in 1..Len(devs) :
        devs[k].id = id /\ \A j \in (k + 1)..Len(devs) : devs[j].id # id

IsMalformed(device) == ~HasPosition(device) \/ "workload" \notin DOMAIN device

\* C12: a sync whose device list holds a device without metrics or without
\* position raises no error; every device of the list has a bundle, with
\* cached workload 0 where the metrics are missing and the body at the
\* origin where the position is missing, and the connection batch is built
\* from the valid connections.
C12_MalformedDeviceSynced ==
    /\ pc \in {"ready", "unmounted", "error"}
    /\ \E i \in 1..Len(devices) : IsMalformed(devices[i])
    => /\ pc # "error"
       /\ DOMAIN deviceObjectsRef = Ids(devices)
       /\ \A id \in DOMAIN deviceObjectsRef :
             LET d == devices[LastIndex(devices, id)]
                 body == objs[deviceObjectsRef[id].mesh]
             IN /\ body.workload = Workload(d)
                /\ body.position = IF HasPosition(d) THEN d.position
                                   ELSE Origin
       /\ (connectionLinesRef # 0) = (ValidCount > 0)

\* The batch objects attached to world.
BatchObjects ==
    { k \in 1..Len(world) : objs[world[k]].type = "LineSegments" }

\* C13: after every rebuild at most one batch object is attached to
\* world, and none when no connection is valid; a rebuild that finds a
\* batch installed detaches it and disposes its geometry and material,
\* and the batch it installs is built on fresh, undisposed ones.
C13_AtMostOneBatch ==
    Synced =>
        /\ Cardinality(BatchObjects) <= 1
        /\ ValidCount = 0 => BatchObjects = {}
        /\ connectionLinesRef # 0 =>
              /\ BatchObjects # {}
              /\ res[connectionGeomRef].disposed = 0
              /\ res[connectionMatRef].disposed = 0

C13_RebuildStep ==
    snapshots' # snapshots /\ connectionLinesRef # 0 =>
        /\ res'[connectionGeomRef].disposed = 1
        /\ res'[connectionMatRef].disposed = 1
        /\ \A k \in 1..Len(world') : world'[k] # connectionLinesRef
        /\ connectionLinesRef' # connectionLinesRef

C13_SingleBatch == [][C13_RebuildStep]_vars /\ []C13_AtMostOneBatch

C13_Witness ==
    /\ pc = "ready"
    /\ snapshots > 0
    /\ Cardinality(BatchObjects) = 1
    /\ \E r \in Resources : res[r].kind = "connGeom" /\ res[r].disposed = 1

\* C15: a sync of a device list that repeats an id raises no error, and
\* the bundle registered under the id has the position, the status
\* material and the cached workload of the last occurrence of the id.
C15_LastOccurrenceWins ==
    /\ pc # "error"
    /\ Synced =>
          /\ DOMAIN deviceObjectsRef = Ids(devices)
          /\ \A id \in DOMAIN deviceObjectsRef :
                LET d == devices[LastIndex(devices, id)]
                    body == objs[deviceObjectsRef[id].mesh]
                IN /\ body.position = d.position
                   /\ materialsRef[d.status] # 0
                   /\ body.material = materialsRef[d.status]
                   /\ body.workload = Workload(d)

C15_Witness ==
    /\ pc = "ready"
    /\ snapshots > 0
    /\ Len(devices) = 2
    /\ devices[1].id = devices[2].id
    /\ devices[1].position # devices[2].position
    /\ devices[1].status # devices[2].status
    /\ objs[deviceObjectsRef[devices[2].id].mesh].position
          = devices[2].position

\* C16: a resize of the container to zero width or zero height raises no
\* error and leaves the camera's aspect at its previous, finite value.
C16_ResizeStep ==
    /\ lastEvent'.type = "resize"
    /\ lastEvent'.width = 0 \/ lastEvent'.height = 0
    => /\ pc' # "error"
       /\ cameraAspect' = cameraAspect
       /\ cameraAspect'.kind = "ratio"

C16_ZeroResizeIgnored == [][C16_ResizeStep]_vars

C16_Witness ==
    /\ pc = "ready"
    /\ lastEvent.type = "resize"
    /\ lastEvent.height = 0
    /\ cameraAspect = Aspect(CONTAINER_WIDTH, CONTAINER_HEIGHT)

\* The pool materials created so far.
PoolMaterials == { r \in Resources : res[r].kind = "material" }

\* C17: over the lifetime of the engine at most one pool material is
\* created per status, and every body of a device with that status holds
\* that material.
C17_OneMaterialPerStatus ==
    /\ \A r1, r2 \in PoolMaterials :
          res[r1].status = res[r2].status => r1 = r2
    /\ Synced =>
          \A id \in DOMAIN deviceObjectsRef :
             LET d == devices[LastIndex(devices, id)]
                 body == objs[deviceObjectsRef[id].mesh]
             IN /\ body.material \in PoolMaterials
                /\ res[body.material].status = d.status

C17_Witness ==
    /\ pc = "ready"
    /\ snapshots > 0
    /\ \E id1, id2 \in DOMAIN deviceObjectsRef :
          /\ id1 # id2
          /\ objs[deviceObjectsRef[id1].mesh].material
                = objs[deviceObjectsRef[id2].mesh].material
    /\ \E id \in DOMAIN deviceObjectsRef, t \in Resources :
          /\ res[t].kind = "labelTexture"
          /\ res[t].disposed = 1
          /\ objs[deviceObjectsRef[id].mesh].material < t

\* The component is mounted and its init effect has run.
Mounted == pc \notin {"new", "unmounted", "error"}

\* C18: while the component is mounted the teardown does not run: the
\* frame callback stays scheduled, the listeners of the engine stay
\* attached, the canvas stays in the container and the pool geometry is
\* not disposed, also across the change of isInitialized.
C18_NoTeardownWhileMounted ==
    Mounted =>
        /\ loopScheduled
        /\ EngineListeners \subseteq listeners
        /\ canvasInContainer
        /\ res[sphereGeoRef].disposed = 0

\* C19: a status poll that completes does not change which device id is
\* selected: the id selected before is selected after, or, when that id
\* is absent from the new topology, nothing is.
C19_PollStep ==
    hookMounted /\ topologyVersion' # topologyVersion =>
        IF selectedDeviceState.id \in topology'
        THEN selectedDeviceState'.id = selectedDeviceState.id
        ELSE selectedDeviceState'.id = Null

C19_PollKeepsSelection == [][C19_PollStep]_vars

\* C20: the completion of a fetchData call starts no fetchData call; the
\* calls after the one at mount are started by the interval.
C20_CompletionStep ==
    fetchesCompleted' # fetchesCompleted => fetchesStarted' = fetchesStarted

C20_FetchOnlyOnTick == [][C20_CompletionStep]_vars

\* C21: while the dashboard is mounted and no analysis run of the current
\* topology is in flight (every run in flight was cancelled, or none was
\* started), aiLoading is false.
C21_AiLoadingNotStuck ==
    dashboardMounted /\ (\A r \in aiRuns : r.cancelled) => ~aiLoading

Dragging == pointer.down \/ dragState.isMouseDown

C27_FrameStep ==
    lastEvent'.type = "frame" /\ Dragging =>
        /\ rotation' = rotation
        /\ dragState'.velocityX = dragState.velocityX
        /\ dragState'.velocityY = dragState.velocityY

C27_MoveStep ==
    lastEvent'.type = "mousemove" /\ ~Dragging =>
        /\ rotation' = rotation
        /\ dragState' = dragState

\* C27: one rotation driver at a time: a frame during a drag changes neither
\* the rotation of world nor the stored drag velocity, and a pointermove
\* outside a drag changes none of rotation, drag velocity, drag distance
\* and last pointer position.
C27_OneRotationDriver == [][C27_FrameStep /\ C27_MoveStep]_vars

C27_Witness ==
    /\ pc = "ready"
    /\ lastEvent.type = "frame"
    /\ pointer.down
    /\ pointer.distance > 0
    /\ rotation = [x |-> 0, y |-> 0]

C23_FrameStep ==
    /\ lastEvent'.type = "frame"
    /\ highlighted # Null
    /\ highlighted = selectedDevice
    /\ selectedDevice \in DOMAIN deviceObjectsRef
    /\ tweens = << >>
    => objs'[deviceObjectsRef'[selectedDevice'].mesh].scale = SELECTED_SCALE

\* C23: once a live bundle was selected and the highlight animation has
\* completed, the selected body has scale 1.5 after every animation frame
\* for as long as the selection stays.
C23_HighlightScaleKept == [][C23_FrameStep]_vars

\* The bodies and labels attached to the root group.
AttachedBodies == { i \in 1..Len(world) : objs[world[i]].type = "Mesh" }

AttachedLabels == { i \in 1..Len(world) : objs[world[i]].type = "Sprite" }

\* C24: after a sync every body and every label attached to the root group
\* is the body or the label of a bundle of the registry, and the number of
\* attached bodies is the number of distinct device ids of the list.
C24_NoOrphan ==
    pc = "ready" =>
        /\ \A i \in AttachedBodies :
              \E id \in DOMAIN deviceObjectsRef :
                  deviceObjectsRef[id].mesh = world[i]
        /\ \A i \in AttachedLabels :
              \E id \in DOMAIN deviceObjectsRef :
                  deviceObjectsRef[id].label = world[i]
        /\ Cardinality(AttachedBodies) = Cardinality(Ids(devices))

\* The position of the body registered for a device id.
BodyPosition(id) == objs[deviceObjectsRef[id].mesh].position

\* C25: after a sync the two endpoints of every edge of the batch are the
\* positions of the bodies registered for the connection's from and to ids.
C25_EdgesAtBodies ==
    pc = "ready" /\ connectionLinesRef # 0 =>
        LET valid == ValidConnections(connections, devices, 1)
            positions == objs[connectionLinesRef].positions
        IN \A i \in 1..Len(valid) :
              /\ SubSeq(positions, 6 * i - 5, 6 * i - 3)
                    = BodyPosition(valid[i].c.from)
              /\ SubSeq(positions, 6 * i - 2, 6 * i)
                    = BodyPosition(valid[i].c.to)

\* C26: after a sync every live bundle reflects the latest device list:
\* for the device that stands last under the bundle's id, the body is at
\* the device's coordinates, the label 2 units above them, the body's
\* material is the pool material of the device's status, and the cached
\* workload is the device's workload.
C26_BundlesReflectSnapshot ==
    pc = "ready" =>
        \A id \in DOMAIN deviceObjectsRef :
            LET d == devices[LastIndex(devices, id)]
                body == objs[deviceObjectsRef[id].mesh]
                label == objs[deviceObjectsRef[id].label]
            IN /\ body.position = d.position
               /\ label.position = << d.position[1], d.position[2] + 2000,
                                      d.position[3] >>
               /\ body.material = materialsRef[d.status]
               /\ res[body.material].status = d.status
               /\ res[body.material].disposed = 0
               /\ body.workload = d.workload

C26_Witness ==
    /\ pc = "ready"
    /\ snapshots > 0
    /\ devices = << Dev("d1", "critical", East, 50) >>
    /\ materialsRef["healthy"] # 0
    /\ objs[deviceObjectsRef["d1"].mesh].position = East
    /\ objs[deviceObjectsRef["d1"].label].position
          = << East[1], 2000, East[3] >>
    /\ objs[deviceObjectsRef["d1"].mesh].workload = 50

\* C28: as long as no status fetch has succeeded, isLoading is true.
C28_LoadingUntilSuccess ==
    hookMounted /\ topologyVersion = 0 => isLoading

\* C29: a non-null selectedDevice is a device of the current topology.
C29_SelectionInTopology ==
    hookMounted /\ selectedDeviceState.id # Null =>
        topologyVersion # 0 /\ selectedDeviceState.id \in topology

C30_ResponseStep ==
    topologyVersion' # topologyVersion => topologyFetch' >= topologyFetch

\* C30: topology is never replaced by the response of a fetchData call
\* that started before the call whose response it holds.
C30_NoOlderResponse == [][C30_ResponseStep]_vars

====
